---- MODULE Spec2Model ----
(***************************************************************************)
(* Model of benchexec/tablegenerator/statisticstex.py: the LaTeX command   *)
(* table writer.  Text is modelled as a sequence of one-character strings  *)
(* (control-sequence names are single tokens); Python's None is the value  *)
(* None.  The sink `out` keeps one element per write() call.               *)
(***************************************************************************)
EXTENDS Integers, Sequences, FiniteSets, TLC

VARIABLES
    run_sets,                   \* argument run_sets: list of object references
    stats,                      \* argument stats: per run-set, per column, a record or None
    pc,                         \* position of the call of write_tex_command_table
    pass,                       \* number of the current generation pass
    out,                        \* the sink of the current pass: its write() calls
    prev_out,                   \* the sinks of the completed passes, oldest first
    formatted_names,            \* local dict of write_tex_command_table
    names_total_counts,         \* local Counter of write_tex_command_table
    names_already_used,         \* local defaultdict(int) of write_tex_command_table
    rs_i,                       \* index of the run-set under iteration (zip, line 133)
    column_titles_total_count,  \* local Counter of _provide_latex_commands
    column_titles_already_used, \* local defaultdict(int) of _provide_latex_commands
    col_i,                      \* index of the column under iteration (zip, line 184)
    current_command,            \* the LatexCommand made at line 153
    stat_i,                     \* index into column_statistic.__dict__.items()
    command,                    \* the deep copy made at line 236
    kind_i,                     \* index into stat_value.__dict__.items()
    resume,                     \* where the generator resumes after the yield
    commands_made,              \* (benchmark_name, runset_name) of each LatexCommand made
    titles_set,                 \* column_title set at line 204, per column of this run-set
    label,                      \* argument of a direct call of format_command_part
    fragment                    \* None, or Some(result) once that call has returned

vars == <<run_sets, stats, pc, pass, out, prev_out, formatted_names,
          names_total_counts, names_already_used, rs_i, column_titles_total_count,
          column_titles_already_used, col_i, current_command, stat_i, command,
          kind_i, resume, commands_made, titles_set, label, fragment>>

\* Python's Optional: None, or Some(x) for a present x
None == <<>>
Some(x) == <<x>>
IsNone(o) == Len(o) = 0
Value(o) == o[1]

(***************************************************************************)
(* Bounds of the model.                                                    *)
(***************************************************************************)
MaxLabelLen == 3
MaxRunSets == 3
MaxRecRunSets == 2
MaxPasses == 2

(***************************************************************************)
(* Text.                                                                   *)
(***************************************************************************)
Lower == <<"a","b","c","d","e","f","g","h","i","j","k","l","m",
           "n","o","p","q","r","s","t","u","v","w","x","y","z">>
Upper == <<"A","B","C","D","E","F","G","H","I","J","K","L","M",
           "N","O","P","Q","R","S","T","U","V","W","X","Y","Z">>
Digits19 == <<"1","2","3","4","5","6","7","8","9">>

LowerSet == {Lower[i] : i \in 1..26}
LetterSet == LowerSet \cup {Upper[i] : i \in 1..26}
DigitSet == {Digits19[i] : i \in 1..9}
ToUpper == [c \in LowerSet |-> Upper[CHOOSE i \in 1..26 : Lower[i] = c]]
DigitValue == [c \in DigitSet |-> CHOOSE i \in 1..9 : Digits19[i] = c]

IsLower(c) == c \in LowerSet
IsLetter(c) == c \in LetterSet
IsDigit19(c) == c \in DigitSet

Min(a, b) == IF a < b THEN a ELSE b

RECURSIVE Concat(_)
Concat(words) ==
    IF words = <<>> THEN <<>> ELSE Head(words) \o Concat(Tail(words))

\* int(text) for a text of digits 1-9
RECURSIVE ToInt(_)
ToInt(digits) ==
    IF digits = <<>> THEN 0
    ELSE 10 * ToInt(SubSeq(digits, 1, Len(digits) - 1))
         + DigitValue[digits[Len(digits)]]

\* util.number_to_roman_string: the upper-case Roman numeral of a positive number
RomanValues == <<1000, 900, 500, 400, 100, 90, 50, 40, 10, 9, 5, 4, 1>>
RomanSymbols == << <<"M">>, <<"C","M">>, <<"D">>, <<"C","D">>, <<"C">>, <<"X","C">>,
                   <<"L">>, <<"X","L">>, <<"X">>, <<"I","X">>, <<"V">>, <<"I","V">>,
                   <<"I">> >>
RECURSIVE number_to_roman_string(_)
number_to_roman_string(number) ==
    IF number <= 0 THEN <<>>
    ELSE LET i == CHOOSE j \in 1..13 :
                      /\ RomanValues[j] <= number
                      /\ \A h \in 1..(j - 1) : RomanValues[h] > number
         IN  RomanSymbols[i] \o number_to_roman_string(number - RomanValues[i])

\* util.cap_first_letter: the word with its first letter in upper case
cap_first_letter(word) ==
    IF word = <<>> THEN word
    ELSE LET c == Head(word)
         IN  <<IF IsLower(c) THEN ToUpper[c] ELSE c>> \o Tail(word)

(***************************************************************************)
(* LatexCommand.format_command_part                                        *)
(***************************************************************************)
AllDigits19(s) == s # <<>> /\ \A i \in 1..Len(s) : IsDigit19(s[i])

\* re "^[1-9]+$" without re.MULTILINE: "$" matches at the end of the text and
\* also just before a line break that ends the text.
NumeralMatchEnd(name) ==
    IF AllDigits19(name) THEN Len(name)
    ELSE IF /\ Len(name) >= 2
            /\ name[Len(name)] = "\n"
            /\ AllDigits19(SubSeq(name, 1, Len(name) - 1))
         THEN Len(name) - 1
         ELSE 0

\* re.sub("^[1-9]+$", lambda match: number_to_roman_string(match.group()), name)
SubNumeral(name) ==
    LET e == NumeralMatchEnd(name)
    IN  IF e = 0 THEN name
        ELSE number_to_roman_string(ToInt(SubSeq(name, 1, e)))
             \o SubSeq(name, e + 1, Len(name))

\* re.split("[^a-zA-Z]", name): the words between the non-letters, empty ones kept
RECURSIVE SplitNonLetters(_, _)
SplitNonLetters(name, word) ==
    IF name = <<>> THEN <<word>>
    ELSE IF IsLetter(Head(name))
         THEN SplitNonLetters(Tail(name), Append(word, Head(name)))
         ELSE <<word>> \o SplitNonLetters(Tail(name), <<>>)

format_command_part(name) ==
    LET words == SplitNonLetters(SubNumeral(name), <<>>)
    IN  Concat([i \in 1..Len(words) |-> cap_first_letter(words[i])])

\* str.split("_"): the parts between the underscores, empty ones kept
RECURSIVE SplitUnderscore(_, _)
SplitUnderscore(name, word) ==
    IF name = <<>> THEN <<word>>
    ELSE IF Head(name) = "_"
         THEN <<word>> \o SplitUnderscore(Tail(name), <<>>)
         ELSE SplitUnderscore(Tail(name), Append(word, Head(name)))

(***************************************************************************)
(* LatexCommand                                                            *)
(***************************************************************************)
LatexCommand(benchmark_name, runset_name) ==
    [benchmark_name     |-> format_command_part(benchmark_name),
     runset_name        |-> format_command_part(runset_name),
     column_title       |-> <<>>,
     column_category    |-> <<>>,
     column_subcategory |-> <<>>,
     stat_type          |-> <<>>,
     value              |-> None]

set_command_part(cmd, part_name, part_value) ==
    [cmd EXCEPT ![part_name] = format_command_part(part_value)]

\* value: None or Some(text); self.value becomes a text
set_command_value(cmd, value) ==
    [cmd EXCEPT !.value = Some(IF IsNone(value) THEN <<>> ELSE Value(value))]

Braced(text) == <<"{">> \o text \o <<"}">>

\* LatexCommand.__repr__
Repr(cmd) ==
    <<"\\StoreBenchExecResult">>
    \o Braced(cmd.benchmark_name) \o Braced(cmd.runset_name)
    \o Braced(cmd.column_title) \o Braced(cmd.column_category)
    \o Braced(cmd.column_subcategory) \o Braced(cmd.stat_type)

\* "if not value": None and the empty text
get_command_formatted(cmd, value) ==
    Repr(cmd) \o Braced(IF IsNone(value) \/ Value(value) = <<>> THEN <<>> ELSE Value(value))

to_latex_raw(cmd) == get_command_formatted(cmd, cmd.value)

TEX_HEADER ==
    <<"%", "\n", "%", "\n", "%", "\n", "%", "\n",
      "\\providecommand", "\\StoreBenchExecResult", "[", "7", "]", "{",
      "\\expandafter", "\\newcommand", "\\csname", "#", "1", "#", "2", "#", "3",
      "#", "4", "#", "5", "#", "6", "\\endcsname", "{", "#", "7", "}", "}",
      "%", "\n">>

LineEnd == <<"%", "\n">>

(***************************************************************************)
(* Collaborators: Column, dict, Counter                                    *)
(***************************************************************************)
\* Column.format_value(value, "csv"): the text of a number
format_value(column, v) == IF v = 0 THEN <<"0">> ELSE <<Digits19[v]>>

\* select_column_name
select_column_name(col) ==
    IF ~IsNone(col.display_title) /\ Value(col.display_title) # <<>>
    THEN Value(col.display_title) ELSE col.title

EmptyCounter == [k \in {} |-> 0]
Get(counter, k) == IF k \in DOMAIN counter THEN counter[k] ELSE 0
Incr(counter, k) ==
    [x \in DOMAIN counter \cup {k} |-> IF x = k THEN Get(counter, k) + 1 ELSE counter[x]]
Range(f) == {f[x] : x \in DOMAIN f}
\* collections.Counter over the values of a dict
CounterOfValues(d) ==
    [k \in Range(d) |-> Cardinality({x \in DOMAIN d : d[x] = k})]
\* collections.Counter over the elements of a list
CounterOfList(l) ==
    [k \in Range(l) |-> Cardinality({i \in 1..Len(l) : l[i] = k})]

(***************************************************************************)
(* Inputs: run-set objects, their columns, and statistic records.          *)
(***************************************************************************)
Col(title, display_title, unit) ==
    [title |-> title, display_title |-> display_title, unit |-> unit]

RunSetResult(benchmarkname, niceName, columns) ==
    [attributes |-> [benchmarkname |-> benchmarkname, niceName |-> niceName],
     columns |-> columns]

\* Names of fields of ColumnStatistics and StatValue
total == <<"t","o","t","a","l">>
correct_true == <<"c","o","r","r","e","c","t","_","t","r","u","e">>
correct_unconfirmed_true ==
    <<"c","o","r","r","e","c","t","_","u","n","c","o","n","f","i","r","m","e","d",
      "_","t","r","u","e">>
sum == <<"s","u","m">>
min == <<"m","i","n">>
unit == <<"u","n","i","t">>

\* Objects whose names and column titles collide in various ways (1..5), and
\* objects whose columns differ in unit and statistics (6..8).
Heap ==
    <<RunSetResult(<<"a">>, <<"x">>, <<Col(<<"t">>, None, None)>>),
      RunSetResult(<<"A">>, <<"x">>, <<Col(<<"a">>, None, None),
                                       Col(<<"A">>, None, None)>>),
      RunSetResult(<<"a">>, <<"x">>, <<Col(<<"7">>, None, None),
                                       Col(<<"7">>, None, None)>>),
      RunSetResult(<<"a">>, <<"y">>, <<Col(<<"x">>, Some(<<"a">>), None),
                                       Col(<<"a">>, Some(<<>>), None),
                                       Col(<<"a","I">>, None, None)>>),
      RunSetResult(<<"a","I">>, <<"x">>, <<Col(<<"t">>, None, None)>>),
      RunSetResult(<<"b">>, <<"x">>, <<Col(<<"t">>, None, Some(<<"s">>)),
                                       Col(<<"u">>, None, Some(<<>>))>>),
      RunSetResult(<<"b">>, <<"y">>, <<Col(<<"t">>, None, None)>>),
      RunSetResult(<<"b">>, <<"z">>, <<>>)>>

\* id(run_set) -> the run-set object
heap == Heap

NameObjects == 1..5
RecordObjects == 6..8

SimpleRecord == Some(<< <<total, Some(<< <<sum, Some(1)>> >>)>> >>)
ZeroRecord ==
    Some(<< <<total, Some(<< <<sum, Some(0)>>, <<min, None>> >>)>>,
            <<correct_true, None>> >>)
LateRecord ==
    Some(<< <<total, None>>,
            <<correct_unconfirmed_true, Some(<< <<sum, None>>, <<min, Some(1)>> >>)>> >>)
HollowRecord == Some(<< <<total, Some(<< <<sum, None>> >>)>> >>)
EmptyRecord == Some(<<>>)

RecordChoices(o, j) ==
    IF o = 6 /\ j = 1 THEN {None, EmptyRecord, ZeroRecord, LateRecord, HollowRecord}
    ELSE IF o = 6 THEN {None, ZeroRecord}
    ELSE {ZeroRecord, LateRecord}

BSeq(S, n) == UNION {[1..k -> S] : k \in 0..n}

(***************************************************************************)
(* Initial states                                                          *)
(***************************************************************************)
EmptyCommand == LatexCommand(<<>>, <<>>)

InitLocals ==
    /\ pass = 1
    /\ out = <<>>
    /\ prev_out = <<>>
    /\ formatted_names = EmptyCounter
    /\ names_total_counts = EmptyCounter
    /\ names_already_used = EmptyCounter
    /\ rs_i = 0
    /\ column_titles_total_count = EmptyCounter
    /\ column_titles_already_used = EmptyCounter
    /\ col_i = 0
    /\ current_command = EmptyCommand
    /\ stat_i = 0
    /\ command = EmptyCommand
    /\ kind_i = 0
    /\ resume = "kinds"
    /\ commands_made = <<>>
    /\ titles_set = <<>>
    /\ fragment = None

\* Run-sets with colliding names; every column has the same simple record.
InitNames ==
    /\ run_sets \in BSeq(NameObjects, MaxRunSets)
    /\ stats = [i \in 1..Len(run_sets) |->
                   [j \in 1..Len(Heap[run_sets[i]].columns) |-> SimpleRecord]]
    /\ pc = "start"
    /\ label = <<>>
    /\ InitLocals

\* Run-sets whose columns carry every kind of record.
InitRecords ==
    /\ run_sets \in BSeq(RecordObjects, MaxRecRunSets)
    /\ stats \in {s \in [1..Len(run_sets) -> BSeq({None, EmptyRecord, ZeroRecord,
                                                   LateRecord, HollowRecord}, 2)] :
                     \A i \in 1..Len(run_sets) :
                        /\ Len(s[i]) = Len(Heap[run_sets[i]].columns)
                        /\ \A j \in 1..Len(s[i]) : s[i][j] \in RecordChoices(run_sets[i], j)}
    /\ pc = "start"
    /\ label = <<>>
    /\ InitLocals

Init == InitNames \/ InitRecords

SanAlphabet == {"a", "B", "7", "0", "_", "\n"}

\* A direct call of format_command_part on any short label
InitSan ==
    /\ run_sets = <<>>
    /\ stats = <<>>
    /\ pc = "san"
    /\ label \in BSeq(SanAlphabet, MaxLabelLen)
    /\ InitLocals

(***************************************************************************)
(* write_tex_command_table                                                 *)
(***************************************************************************)
\* zip(a, b) stops at the shorter of the two
ZipLen(a, b) == Min(Len(a), Len(b))

\* Variant: the table of used names outlives the call (a module-level table)
StaleNamesAlreadyUsed == names_already_used

NewNamesAlreadyUsed == EmptyCounter

\* Lines 116-130: the names of every run-set, keyed by id(run_set), and their counts
Setup ==
    /\ pc = "start"
    /\ formatted_names' =
           [o \in Range(run_sets) |->
               <<format_command_part(heap[o].attributes.benchmarkname),
                 format_command_part(heap[o].attributes.niceName)>>]
    /\ names_total_counts' = CounterOfValues(formatted_names')
    /\ names_already_used' = NewNamesAlreadyUsed
    /\ rs_i' = 0
    /\ commands_made' = <<>>
    /\ titles_set' = <<>>
    /\ pc' = "header"
    /\ UNCHANGED <<run_sets, stats, pass, out, prev_out,
                   column_titles_total_count, column_titles_already_used, col_i,
                   current_command, stat_i, command, kind_i, resume,
                   label, fragment>>

\* Variant: nothing is written for an empty list of run-sets
WriteHeaderUnlessEmpty ==
    /\ pc = "header"
    /\ out' = IF run_sets = <<>> THEN out ELSE Append(out, TEX_HEADER)
    /\ pc' = "runsets"
    /\ UNCHANGED <<run_sets, stats, pass, prev_out, formatted_names,
                   names_total_counts, names_already_used, rs_i,
                   column_titles_total_count, column_titles_already_used, col_i,
                   current_command, stat_i, command, kind_i, resume, commands_made,
                   titles_set, label, fragment>>

\* Line 132
WriteHeader ==
    /\ pc = "header"
    /\ out' = Append(out, TEX_HEADER)
    /\ pc' = "runsets"
    /\ UNCHANGED <<run_sets, stats, pass, prev_out, formatted_names,
                   names_total_counts, names_already_used, rs_i,
                   column_titles_total_count, column_titles_already_used, col_i,
                   current_command, stat_i, command, kind_i, resume, commands_made,
                   titles_set, label, fragment>>

\* Lines 142-151: the suffix of a name used for the `used`-th time
Suffix(total_count, used) ==
    IF total_count > 1 THEN number_to_roman_string(used) ELSE <<>>

\* Variant: the suffix goes to the run-set name
SuffixedNamesOnRunSet(name_tuple, suffix) == <<name_tuple[1], name_tuple[2] \o suffix>>

\* Lines 139-153: the two names handed to LatexCommand
SuffixedNames(name_tuple, suffix) == <<name_tuple[1] \o suffix, name_tuple[2]>>

\* Lines 133-153 and 179-182: the next run-set, its command, its title counts
RunSetStep ==
    /\ pc = "runsets"
    /\ rs_i < ZipLen(run_sets, stats)
    /\ LET run_set == run_sets[rs_i + 1]
           name_tuple == formatted_names[run_set]
           used == Incr(names_already_used, name_tuple)
           names == SuffixedNames(name_tuple,
                        Suffix(Get(names_total_counts, name_tuple), used[name_tuple]))
           columns == heap[run_set].columns
       IN  /\ names_already_used' = used
           /\ current_command' = LatexCommand(names[1], names[2])
           /\ commands_made' = Append(commands_made,
                                      <<current_command'.benchmark_name,
                                        current_command'.runset_name>>)
           /\ column_titles_total_count' =
                  CounterOfList([j \in 1..Len(columns) |-> select_column_name(columns[j])])
    /\ column_titles_already_used' = EmptyCounter
    /\ rs_i' = rs_i + 1
    /\ col_i' = 0
    /\ titles_set' = <<>>
    /\ pc' = "columns"
    /\ UNCHANGED <<run_sets, stats, pass, out, prev_out, formatted_names,
                   names_total_counts, stat_i, command, kind_i, resume, label,
                   fragment>>

\* Line 133: zip is exhausted, the call returns
RunSetsEnd ==
    /\ pc = "runsets"
    /\ rs_i >= ZipLen(run_sets, stats)
    /\ pc' = "done"
    /\ UNCHANGED <<run_sets, stats, pass, out, prev_out, formatted_names,
                   names_total_counts, names_already_used, rs_i,
                   column_titles_total_count, column_titles_already_used, col_i,
                   current_command, stat_i, command, kind_i, resume, commands_made,
                   titles_set, label, fragment>>

(***************************************************************************)
(* _provide_latex_commands                                                 *)
(***************************************************************************)
CurrentColumns == heap[run_sets[rs_i]].columns
CurrentColumn == CurrentColumns[col_i]
CurrentRecord == Value(stats[rs_i][col_i])

\* Lines 185-202: the title handed to set_command_part
SuffixedTitle(column_title, suffix) == column_title \o suffix

\* Lines 184-208 and 227-228: the next column; a missing record yields nothing
ColumnStep ==
    /\ pc = "columns"
    /\ col_i < ZipLen(CurrentColumns, stats[rs_i])
    /\ LET column == CurrentColumns[col_i + 1]
           column_stats == stats[rs_i][col_i + 1]
           column_title == select_column_name(column)
           used == Incr(column_titles_already_used, column_title)
       IN  /\ column_titles_already_used' = used
           /\ current_command' =
                  set_command_part(current_command, "column_title",
                      SuffixedTitle(column_title,
                          Suffix(Get(column_titles_total_count, column_title),
                                 used[column_title])))
           /\ titles_set' = Append(titles_set, current_command'.column_title)
           /\ pc' = IF IsNone(column_stats) THEN "columns" ELSE "stats"
    /\ col_i' = col_i + 1
    /\ stat_i' = 0
    /\ UNCHANGED <<run_sets, stats, pass, out, prev_out, formatted_names,
                   names_total_counts, names_already_used, rs_i,
                   column_titles_total_count, command, kind_i, resume, commands_made,
                   label, fragment>>

\* Line 184: zip is exhausted, the generator ends
ColumnsEnd ==
    /\ pc = "columns"
    /\ col_i >= ZipLen(CurrentColumns, stats[rs_i])
    /\ pc' = "runsets"
    /\ UNCHANGED <<run_sets, stats, pass, out, prev_out, formatted_names,
                   names_total_counts, names_already_used, rs_i,
                   column_titles_total_count, column_titles_already_used, col_i,
                   current_command, stat_i, command, kind_i, resume, commands_made,
                   titles_set, label, fragment>>

(***************************************************************************)
(* _column_statistic_to_latex_command                                      *)
(***************************************************************************)
\* Lines 238-240
ColumnParts(stat_name) ==
    LET column_parts == SplitUnderscore(stat_name, <<>>)
    IN  IF Len(column_parts) < 2 THEN Append(column_parts, <<>>) ELSE column_parts

\* Lines 236-250: a copy of the command with the category and the subcategory set
WithCategory(init_command, stat_name) ==
    LET column_parts == ColumnParts(stat_name)
        n == Len(column_parts)
    IN  set_command_part(
            set_command_part(init_command, "column_category",
                Concat([i \in 1..(n - 1) |-> cap_first_letter(column_parts[i])])),
            "column_subcategory", column_parts[n])

\* Lines 231-250: the next statistic; an absent one is skipped
StatStep ==
    /\ pc = "stats"
    /\ stat_i < Len(CurrentRecord)
    /\ LET stat_name == CurrentRecord[stat_i + 1][1]
           stat_value == CurrentRecord[stat_i + 1][2]
       IN  IF IsNone(stat_value)
           THEN /\ pc' = "stats"
                /\ UNCHANGED command
           ELSE /\ pc' = "kinds"
                /\ command' = WithCategory(current_command, stat_name)
    /\ stat_i' = stat_i + 1
    /\ kind_i' = 0
    /\ UNCHANGED <<run_sets, stats, pass, out, prev_out, formatted_names,
                   names_total_counts, names_already_used, rs_i,
                   column_titles_total_count, column_titles_already_used, col_i,
                   current_command, resume, commands_made, titles_set, label,
                   fragment>>

\* Line 231: the record is exhausted
StatsEnd ==
    /\ pc = "stats"
    /\ stat_i >= Len(CurrentRecord)
    /\ pc' = "columns"
    /\ UNCHANGED <<run_sets, stats, pass, out, prev_out, formatted_names,
                   names_total_counts, names_already_used, rs_i,
                   column_titles_total_count, column_titles_already_used, col_i,
                   current_command, stat_i, command, kind_i, resume, commands_made,
                   titles_set, label, fragment>>

CurrentStatValue == Value(CurrentRecord[stat_i][2])

\* Variant: "if not v", which also skips the number 0
KindIsSkippedFalsy(v) == IsNone(v) \/ Value(v) = 0

\* Line 254: "v is None"
KindIsSkipped(v) == IsNone(v)

\* Lines 252-258: the next kind; it is yielded unless its value is absent
KindStep ==
    /\ pc = "kinds"
    /\ kind_i < Len(CurrentStatValue)
    /\ LET k == CurrentStatValue[kind_i + 1][1]
           v == CurrentStatValue[kind_i + 1][2]
       IN  IF KindIsSkipped(v)
           THEN /\ pc' = "kinds"
                /\ UNCHANGED <<command, resume>>
           ELSE /\ command' = set_command_value(
                                  set_command_part(command, "stat_type", k),
                                  Some(format_value(CurrentColumn, Value(v))))
                /\ resume' = "kinds"
                /\ pc' = "write"
    /\ kind_i' = kind_i + 1
    /\ UNCHANGED <<run_sets, stats, pass, out, prev_out, formatted_names,
                   names_total_counts, names_already_used, rs_i,
                   column_titles_total_count, column_titles_already_used, col_i,
                   current_command, stat_i, commands_made, titles_set, label,
                   fragment>>

\* Variant: "if column.unit is not None", which takes an empty unit too
HasUnitNotNone(column) == ~IsNone(column.unit)

\* Line 259: "if column.unit"
HasUnit(column) == ~IsNone(column.unit) /\ Value(column.unit) # <<>>

\* Lines 259-262: after the kinds, the unit of the column if it has one
KindsEnd ==
    /\ pc = "kinds"
    /\ kind_i >= Len(CurrentStatValue)
    /\ IF HasUnit(CurrentColumn)
       THEN /\ command' = set_command_value(
                              set_command_part(command, "stat_type", unit),
                              CurrentColumn.unit)
            /\ resume' = "stats"
            /\ pc' = "write"
       ELSE /\ pc' = "stats"
            /\ UNCHANGED <<command, resume>>
    /\ UNCHANGED <<run_sets, stats, pass, out, prev_out, formatted_names,
                   names_total_counts, names_already_used, rs_i,
                   column_titles_total_count, column_titles_already_used, col_i,
                   current_command, stat_i, kind_i, commands_made, titles_set,
                   label, fragment>>

(***************************************************************************)
(* The writes of the loop body, lines 156-157                              *)
(***************************************************************************)
\* Line 156
WriteCommand ==
    /\ pc = "write"
    /\ out' = Append(out, to_latex_raw(command))
    /\ pc' = "write_eol"
    /\ UNCHANGED <<run_sets, stats, pass, prev_out, formatted_names,
                   names_total_counts, names_already_used, rs_i,
                   column_titles_total_count, column_titles_already_used, col_i,
                   current_command, stat_i, command, kind_i, resume, commands_made,
                   titles_set, label, fragment>>

\* Variant: the line end is not written
WriteLineEndSkipped ==
    /\ pc = "write_eol"
    /\ pc' = resume
    /\ UNCHANGED <<run_sets, stats, pass, out, prev_out, formatted_names,
                   names_total_counts, names_already_used, rs_i,
                   column_titles_total_count, column_titles_already_used, col_i,
                   current_command, stat_i, command, kind_i, resume, commands_made,
                   titles_set, label, fragment>>

\* Line 157
WriteLineEnd ==
    /\ pc = "write_eol"
    /\ out' = Append(out, LineEnd)
    /\ pc' = resume
    /\ UNCHANGED <<run_sets, stats, pass, prev_out, formatted_names,
                   names_total_counts, names_already_used, rs_i,
                   column_titles_total_count, column_titles_already_used, col_i,
                   current_command, stat_i, command, kind_i, resume, commands_made,
                   titles_set, label, fragment>>

\* out.write raises: the sink keeps what it has and the call ends
WriteRejected ==
    /\ pc \in {"header", "write", "write_eol"}
    /\ pc' = "failed"
    /\ UNCHANGED <<run_sets, stats, pass, out, prev_out, formatted_names,
                   names_total_counts, names_already_used, rs_i,
                   column_titles_total_count, column_titles_already_used, col_i,
                   current_command, stat_i, command, kind_i, resume, commands_made,
                   titles_set, label, fragment>>

\* The caller runs the generation again on the same input with a new sink
Restart ==
    /\ pc = "done"
    /\ pass < MaxPasses
    /\ prev_out' = Append(prev_out, out)
    /\ out' = <<>>
    /\ pass' = pass + 1
    /\ pc' = "start"
    /\ UNCHANGED <<run_sets, stats, formatted_names,
                   names_total_counts, names_already_used, rs_i,
                   column_titles_total_count, column_titles_already_used, col_i,
                   current_command, stat_i, command, kind_i, resume, commands_made,
                   titles_set, label, fragment>>

Next ==
    \/ Setup
    \/ WriteHeader
    \/ RunSetStep
    \/ RunSetsEnd
    \/ ColumnStep
    \/ ColumnsEnd
    \/ StatStep
    \/ StatsEnd
    \/ KindStep
    \/ KindsEnd
    \/ WriteCommand
    \/ WriteLineEnd
    \/ WriteRejected
    \/ Restart

Spec == Init /\ [][Next]_vars

\* A direct call of the sanitizer
FormatCommandPart ==
    /\ pc = "san"
    /\ fragment' = Some(format_command_part(label))
    /\ pc' = "san_done"
    /\ UNCHANGED <<run_sets, stats, pass, out, prev_out, formatted_names,
                   names_total_counts, names_already_used, rs_i,
                   column_titles_total_count, column_titles_already_used, col_i,
                   current_command, stat_i, command, kind_i, resume, commands_made,
                   titles_set, label>>

NextSan == FormatCommandPart

SpecSan == InitSan /\ [][NextSan]_vars

(***************************************************************************)
(* Reading the sink back, and the input as the claims speak of it          *)
(***************************************************************************)
Macro == "\\StoreBenchExecResult"

\* The brace groups at the front of a text, and what follows them
RECURSIVE ParseGroups(_)
ParseGroups(tokens) ==
    IF tokens = <<>> \/ Head(tokens) # "{" \/ ~\E e \in 2..Len(tokens) : tokens[e] = "}"
    THEN [groups |-> <<>>, rest |-> tokens]
    ELSE LET e == CHOOSE x \in 2..Len(tokens) :
                      /\ tokens[x] = "}"
                      /\ \A y \in 2..(x - 1) : tokens[y] # "}"
             more == ParseGroups(SubSeq(tokens, e + 1, Len(tokens)))
         IN  [groups |-> <<SubSeq(tokens, 2, e - 1)>> \o more.groups,
              rest |-> more.rest]

\* A write that is a macro invocation with seven arguments and nothing else
IsCommandText(w) ==
    /\ w # <<>>
    /\ Head(w) = Macro
    /\ Len(ParseGroups(Tail(w)).groups) = 7
    /\ ParseGroups(Tail(w)).rest = <<>>

\* A write that is a macro invocation with seven arguments and its line end
IsWholeLine(w) ==
    /\ w # <<>>
    /\ Head(w) = Macro
    /\ Len(ParseGroups(Tail(w)).groups) = 7
    /\ ParseGroups(Tail(w)).rest = LineEnd

Args(w) == ParseGroups(Tail(w)).groups
SixFragments(w) == SubSeq(Args(w), 1, 6)

IsMacroWrite(w) == w # <<>> /\ Head(w) = Macro

\* The command texts of a sink, in the order of their writes
CommandTexts(sink) == SelectSeq(sink, IsMacroWrite)

ColumnsOf(i) == heap[run_sets[i]].columns
NameKey(o) ==
    <<format_command_part(heap[o].attributes.benchmarkname),
      format_command_part(heap[o].attributes.niceName)>>
KeySeq == [i \in 1..Len(run_sets) |-> NameKey(run_sets[i])]
TitleSeq(i) == [j \in 1..Len(ColumnsOf(i)) |-> select_column_name(ColumnsOf(i)[j])]

\* How often the i-th key occurs in the sequence, and up to and including i
Total(keys, i) == Cardinality({j \in 1..Len(keys) : keys[j] = keys[i]})
Occurrence(keys, i) == Cardinality({j \in 1..i : keys[j] = keys[i]})
Roman(k) == number_to_roman_string(k)

\* How many run-set objects of the list have the key of the i-th item
TotalObjects(keys, i) ==
    Cardinality({run_sets[j] : j \in {h \in 1..Len(keys) : keys[h] = keys[i]}})

\* The list holds no run-set object twice
DistinctObjects == \A i, j \in 1..Len(run_sets) : i # j => run_sets[i] # run_sets[j]

(***************************************************************************)
(* C1.  Global uniqueness: once write_tex_command_table has completed, no   *)
(* two emitted commands have the same six fragments (benchmark, run-set,   *)
(* column title, category, subcategory, kind), read back from between the  *)
(* braces of the lines in the sink.  Stated for the lists that hold no     *)
(* run-set object twice.                                                   *)
(***************************************************************************)
C1_GlobalUniqueness ==
    (pc = "done" /\ DistinctObjects) =>
        LET cmds == CommandTexts(out)
        IN  \A i, j \in 1..Len(cmds) :
                i # j => SixFragments(cmds[i]) # SixFragments(cmds[j])

(***************************************************************************)
(* C2.  The resolved keys are pairwise distinct: the names of the commands *)
(* made for any two different run-sets of the call differ, and the column  *)
(* titles set for any two different columns of one run-set differ.         *)
(***************************************************************************)
C2_ResolvedKeysDistinct ==
    /\ \A i, j \in 1..Len(commands_made) :
           run_sets[i] # run_sets[j] => commands_made[i] # commands_made[j]
    /\ \A i, j \in 1..Len(titles_set) :
           i # j => titles_set[i] # titles_set[j]

(***************************************************************************)
(* C3.  Deterministic suffixing: an item whose key occurs once in the      *)
(* whole sequence keeps its key, and the k-th occurrence of a key that     *)
(* occurs twice or more gets the Roman numeral of k as suffix, the first   *)
(* occurrence included.  At the run-set level the key is the pair of       *)
(* formatted names (the suffix on either of them); at the column level it  *)
(* is the selected title, formatted once the suffix is on it.              *)
(***************************************************************************)
C3_SuffixOf(keys, i) ==
    IF Total(keys, i) = 1 THEN <<>> ELSE Roman(Occurrence(keys, i))

C3_DeterministicSuffixing ==
    /\ \A i \in 1..Len(commands_made) :
           LET key == KeySeq[i]
               sfx == C3_SuffixOf(KeySeq, i)
           IN  commands_made[i] \in {<<key[1] \o sfx, key[2]>>, <<key[1], key[2] \o sfx>>}
    /\ \A j \in 1..Len(titles_set) :
           titles_set[j] =
               format_command_part(TitleSeq(rs_i)[j] \o C3_SuffixOf(TitleSeq(rs_i), j))

\* The same over lists that hold no run-set object twice
C3_OverDistinctObjects == DistinctObjects => C3_DeterministicSuffixing

(***************************************************************************)
(* C4.  format_command_part: the result holds letters only; a non-empty    *)
(* label of digits 1-9 gives the non-empty Roman numeral of that number;   *)
(* any other label (one with a 0 or a non-digit) is not replaced by a      *)
(* numeral: it gives its letters, each one that starts a maximal run of    *)
(* letters in upper case, so a label without letters gives the empty       *)
(* fragment.                                                               *)
(***************************************************************************)
C4_LetterRuns(name) ==
    Concat([i \in 1..Len(name) |->
               IF ~IsLetter(name[i]) THEN <<>>
               ELSE IF i = 1 \/ ~IsLetter(name[i - 1])
                    THEN cap_first_letter(<<name[i]>>)
                    ELSE <<name[i]>>])

C4_Sanitizer ==
    pc = "san_done" =>
        LET f == Value(fragment)
        IN  /\ \A i \in 1..Len(f) : IsLetter(f[i])
            /\ AllDigits19(label) => f = Roman(ToInt(label)) /\ f # <<>>
            /\ ~AllDigits19(label) => f = C4_LetterRuns(label)

(***************************************************************************)
(* The leaves of the input in nested order, written from the input alone:  *)
(* run-sets in list order, their columns in order, the statistics of a     *)
(* record in field order, the kinds of a statistic in field order, then    *)
(* the unit of the column.                                                 *)
(***************************************************************************)
UnitFragment == <<"U","n","i","t">>
PresentUnit(column) == column.unit # None /\ column.unit # Some(<<>>)

ExpectedCategory(stat_name) ==
    LET parts == ColumnParts(stat_name)
    IN  format_command_part(
            Concat([i \in 1..(Len(parts) - 1) |-> cap_first_letter(parts[i])]))
ExpectedSubcategory(stat_name) ==
    LET parts == ColumnParts(stat_name)
    IN  format_command_part(parts[Len(parts)])

\* <<category, subcategory, kind, value>> of one statistic of a column
StatLeaves(column, stat_name, stat_value) ==
    LET cat == ExpectedCategory(stat_name)
        sub == ExpectedSubcategory(stat_name)
    IN  Concat([k \in 1..Len(stat_value) |->
                   IF stat_value[k][2] = None THEN <<>>
                   ELSE << <<cat, sub, format_command_part(stat_value[k][1]),
                             format_value(column, stat_value[k][2][1])>> >>])
        \o (IF PresentUnit(column)
            THEN << <<cat, sub, UnitFragment, column.unit[1]>> >>
            ELSE <<>>)

RecordLeaves(column, record) ==
    IF record = None THEN <<>>
    ELSE Concat([s \in 1..Len(record[1]) |->
                    IF record[1][s][2] = None THEN <<>>
                    ELSE StatLeaves(column, record[1][s][1], record[1][s][2][1])])

\* The names and the title the code gives: a suffix for a key that several
\* run-set objects (several columns) have, numbered in traversal order
ExpectedNames(keys, i) ==
    LET sfx == IF TotalObjects(keys, i) > 1 THEN Roman(Occurrence(keys, i)) ELSE <<>>
    IN  <<keys[i][1] \o sfx, keys[i][2]>>
ExpectedTitle(i, j) ==
    LET titles == TitleSeq(i)
        sfx == IF Total(titles, j) > 1 THEN Roman(Occurrence(titles, j)) ELSE <<>>
    IN  format_command_part(titles[j] \o sfx)

\* The seven arguments of every command, in nested input order
ExpectedLeaves ==
    LET keys == KeySeq
    IN  Concat([i \in 1..Len(run_sets) |->
            LET names == ExpectedNames(keys, i)
            IN  Concat([j \in 1..Len(ColumnsOf(i)) |->
                    LET leaves == RecordLeaves(ColumnsOf(i)[j], stats[i][j])
                        title == ExpectedTitle(i, j)
                    IN  [n \in 1..Len(leaves) |-> <<names[1], names[2], title>> \o leaves[n]]])])

LineOf(leaf) == <<Macro>> \o Concat([a \in 1..7 |-> Braced(leaf[a])])

ExpectedSink ==
    LET leaves == ExpectedLeaves
    IN  <<TEX_HEADER>>
        \o Concat([n \in 1..Len(leaves) |-> <<LineOf(leaves[n]), LineEnd>>])

IsPrefix(a, b) == Len(a) <= Len(b) /\ SubSeq(b, 1, Len(a)) = a

IsUnitLine(w) == Args(w)[6] = UnitFragment
IsKindLine(w) == Args(w)[6] # UnitFragment

C6_HeaderInvariance ==
    /\ \A i \in 1..Len(out) : (out[i] = TEX_HEADER) <=> (i = 1)
    /\ pc \notin {"start", "header", "failed"} => Len(out) >= 1
    /\ pc \in {"start", "header"} => out = <<>>
    /\ (pc = "done" /\ run_sets = <<>>) => out = <<TEX_HEADER>>

\* A pass over several run-sets has completed with several command lines written
C6_Witness ==
    /\ pc = "done"
    /\ Len(run_sets) >= 2
    /\ Len(out) >= 5
    /\ out[1] = TEX_HEADER

(***************************************************************************)
(* C7.  Absent versus zero: on completion the kind leaves in the sink are  *)
(* exactly, in order, one per kind whose value is present (the number 0    *)
(* included) of every present statistic of every present record, each with *)
(* the csv rendering of its value as seventh argument; absent kinds,       *)
(* absent statistics, and empty or absent records give no leaf.            *)
(***************************************************************************)
C7_ExpectedKindLeaves ==
    Concat([i \in 1..Len(run_sets) |->
        Concat([j \in 1..Len(ColumnsOf(i)) |->
            IF stats[i][j] = None THEN <<>>
            ELSE LET record == stats[i][j][1]
                 IN  Concat([s \in 1..Len(record) |->
                         IF record[s][2] = None THEN <<>>
                         ELSE LET stat_value == record[s][2][1]
                              IN  Concat([k \in 1..Len(stat_value) |->
                                      IF stat_value[k][2] = None THEN <<>>
                                      ELSE << <<format_command_part(stat_value[k][1]),
                                                format_value(ColumnsOf(i)[j],
                                                             stat_value[k][2][1])>> >>])])])])

C7_AbsentVersusZero ==
    pc = "done" =>
        LET lines == SelectSeq(CommandTexts(out), IsKindLine)
        IN  /\ [n \in 1..Len(lines) |-> <<Args(lines[n])[6], Args(lines[n])[7]>>]
               = C7_ExpectedKindLeaves
            /\ \A n \in 1..Len(lines) : Args(lines[n])[7] # <<>>

\* A pass has completed over a record with a kind of value 0, an absent kind
\* and an absent statistic, and the sink holds a leaf with the text of 0
C7_Witness ==
    /\ pc = "done"
    /\ \E i \in 1..Len(run_sets) : \E j \in 1..Len(ColumnsOf(i)) :
           stats[i][j] = ZeroRecord
    /\ \E n \in 1..Len(out) : IsCommandText(out[n]) /\ Args(out[n])[7] = <<"0">>

(***************************************************************************)
(* C8.  Unit leaf: on completion the (category, subcategory, kind) of the  *)
(* lines in the sink are those of the leaves in nested order, where every  *)
(* present statistic of a column with a non-empty unit ends with one leaf  *)
(* of kind unit that has the category and subcategory of that statistic,   *)
(* and a column with no or an empty unit has no such leaf; the seventh     *)
(* argument of every unit leaf is the unit of its column as it stands.     *)
(***************************************************************************)
C8_UnitLeaf ==
    pc = "done" =>
        LET lines == CommandTexts(out)
            leaves == ExpectedLeaves
        IN  /\ [n \in 1..Len(lines) |-> SubSeq(Args(lines[n]), 4, 6)]
               = [n \in 1..Len(leaves) |-> SubSeq(leaves[n], 4, 6)]
            /\ \A n \in 1..Len(lines) :
                   IsUnitLine(lines[n]) =>
                       /\ Args(lines[n])[7] = leaves[n][7]
                       /\ Args(lines[n])[7] # <<>>

\* A pass has completed over a run-set with a column with a unit and a column
\* with an empty unit, both with statistics, and a unit leaf follows a kind
\* leaf in the sink
C8_Witness ==
    /\ pc = "done"
    /\ \E i \in 1..Len(run_sets) :
           /\ run_sets[i] = 6
           /\ stats[i][1] = ZeroRecord
           /\ stats[i][2] = ZeroRecord
    /\ \E n \in 3..Len(out) :
           /\ IsCommandText(out[n]) /\ IsUnitLine(out[n])
           /\ IsKindLine(out[n - 2])
           /\ Args(out[n])[7] = <<"s">>

(***************************************************************************)
(* C9.  Suffix placement.  As claimed: for every item that gets a suffix,  *)
(* the suffix is on the last fragment of its key and the other fragments   *)
(* are unchanged, so at the run-set level it is on the run-set name, and   *)
(* at the column level the fragment is the formatted title followed by the *)
(* suffix, numeric titles included.                                        *)
(***************************************************************************)
C9_SuffixOnLastFragment ==
    LET keys == KeySeq
    IN  /\ \A i \in 1..Len(commands_made) :
               TotalObjects(keys, i) > 1 =>
                   commands_made[i] =
                       <<keys[i][1], keys[i][2] \o Roman(Occurrence(keys, i))>>
        /\ \A j \in 1..Len(titles_set) :
               LET titles == TitleSeq(rs_i)
               IN  Total(titles, j) > 1 =>
                       titles_set[j] =
                           format_command_part(titles[j]) \o Roman(Occurrence(titles, j))

\* A title of digits 1-9 only, with or without one line break after them
C9_NumeralTitle(title) ==
    \/ AllDigits19(title)
    \/ /\ Len(title) >= 2
       /\ title[Len(title)] = "\n"
       /\ AllDigits19(SubSeq(title, 1, Len(title) - 1))

(***************************************************************************)
(* C9, amended.  For every item that gets a suffix: at the run-set level   *)
(* the benchmark-name fragment is the formatted benchmark name followed by *)
(* the suffix and the run-set-name fragment is the formatted run-set name  *)
(* unchanged; at the column level the fragment is the formatted title      *)
(* followed by the suffix, except for a title of digits 1-9 only (with or  *)
(* without a line break at its end), whose fragment is the suffix alone.   *)
(***************************************************************************)
C9_SuffixPlacement ==
    LET keys == KeySeq
    IN  /\ \A i \in 1..Len(commands_made) :
               TotalObjects(keys, i) > 1 =>
                   commands_made[i] =
                       <<keys[i][1] \o Roman(Occurrence(keys, i)), keys[i][2]>>
        /\ \A j \in 1..Len(titles_set) :
               LET titles == TitleSeq(rs_i)
                   sfx == Roman(Occurrence(titles, j))
               IN  Total(titles, j) > 1 =>
                       titles_set[j] = IF C9_NumeralTitle(titles[j]) THEN sfx
                                       ELSE format_command_part(titles[j]) \o sfx

\* The second of two run-sets with the same names has had its two columns of
\* the same numeric title named, after a run-set whose columns share a title
\* that is no number
C9_Witness ==
    /\ pc = "columns"
    /\ rs_i = 3
    /\ run_sets = <<4, 1, 3>>
    /\ Len(titles_set) = 2
    /\ commands_made[3] = << <<"A","I","I">>, <<"X">> >>
    /\ titles_set = << <<"I">>, <<"I","I">> >>

(***************************************************************************)
(* C10.  One command per write.  As claimed: after the header every write  *)
(* carries one whole command line, the macro invocation with its seven     *)
(* arguments and its line end, so the sink always holds the header and     *)
(* then whole lines only, also after a rejected write.                     *)
(***************************************************************************)
C10_OneCommandPerWrite ==
    pc \notin {"start", "header"} =>
        \/ out = <<>> /\ pc = "failed"
        \/ /\ out # <<>>
           /\ out[1] = TEX_HEADER
           /\ \A i \in 2..Len(out) : IsWholeLine(out[i])

(***************************************************************************)
(* C10, amended.  After the header every command reaches the sink through  *)
(* two writes in a row, first the macro invocation with its seven          *)
(* arguments, then the line end; so the sink holds the header, then whole  *)
(* lines, and then, only between the two writes of a command or after the  *)
(* rejected write of a line end, one command that lacks its line end.      *)
(***************************************************************************)
C10_TwoWritesPerCommand ==
    pc \notin {"start", "header"} =>
        \/ out = <<>> /\ pc = "failed"
        \/ /\ out # <<>>
           /\ out[1] = TEX_HEADER
           /\ \A i \in 2..Len(out) :
                  IF i % 2 = 0 THEN IsCommandText(out[i]) ELSE out[i] = LineEnd
           /\ Len(out) % 2 = 0 => pc \in {"write_eol", "failed"}
           /\ pc = "write_eol" => Len(out) % 2 = 0

\* The write of the line end of the second command was rejected
C10_Witness ==
    /\ pc = "failed"
    /\ Len(out) = 4
    /\ IsCommandText(out[4])

====
